---- MODULE Spec2Model ----
(***************************************************************************)
(* EduConnect tracking service: the per-user record of the lessons open in *)
(* browser tabs and of the focused one (app/services/tracking_service.py), *)
(* with the HTTP handlers around it (app/routes.py).                       *)
(*                                                                         *)
(* The tracking collection is the list of its documents in the order of   *)
(* their insertion, which is the order in which the store matches a       *)
(* filter.  Every service method is a find_one followed by at most one    *)
(* write; the two store calls are separate steps, so that requests served *)
(* by different workers of the service interleave between them.           *)
(* Timestamps are readings of one non-decreasing clock, in the            *)
(* millisecond unit the store keeps.                                      *)
(***************************************************************************)
EXTENDS Integers, Sequences, FiniteSets, TLC

\* Bounds of the model.
MaxClock == 1
MaxOps == 4
SeqMaxClock == 2
SeqMaxOps == 5
MaxFaults == 1

Users == {"u1"}
Tabs == {"t1", "t2"}
SeqTabs == {"t1", "t2", "t3"}
Procs == {1, 2}
SeqProcs == {1}

\* Python's None, for a document, a result or a title.
None == [none |-> TRUE]
NoTitle == "None"

\* The lesson identities a client sends with /lesson/enter.
Lesson1 == [lesson_id |-> "l1", serie_id |-> "s1", lesson_title |-> "Intro"]
Lesson2 == [lesson_id |-> "l2", serie_id |-> "s2", lesson_title |-> NoTitle]
LessonArgs == {Lesson1, Lesson2}

\* The (tab, lesson) pairs of the EnterLesson requests: under SpecSeq every
\* tab opens every lesson; under Spec tab t1 opens either lesson and tab t2
\* opens the second.
SeqEnters == SeqTabs \X LessonArgs
Enters == {<<"t1", Lesson1>>, <<"t1", Lesson2>>, <<"t2", Lesson2>>}

NoLesson == [lesson_id |-> "-", serie_id |-> "-", lesson_title |-> NoTitle]

\* The lessons collection read by the enrichment lookup: l2 is not in it.
LessonsCollection ==
    { [id |-> "l1", lesson_serie |-> "s1", lesson_title |-> "Intro"] }

VARIABLES
    unique,     \* whether the collection has its unique index on user_id
    coll,       \* the current_lesson_tracking collection: its documents in
                \* insertion order
    clock,      \* datetime.now(timezone.utc)
    pc,         \* per request slot: "idle", "find", "clock", "write", "fetch"
    call,       \* per request slot: the request being served
    now,        \* per request slot: the reading of datetime.now the method
                \* has taken (lines 95, 165, 306)
    tracking,   \* per request slot: the local `tracking` read by find_one
    response,   \* the HTTP response sent by the step just taken, or None
    ops,        \* number of requests received so far
    faults,     \* number of store failures so far
    \* History of the requests, kept to state the properties:
    entered,    \* per user: an EnterLesson request was received
    opened,     \* per user: the tabs entered and not exited since
    raced,      \* per user: two of the user's requests overlapped in time
    run         \* per user: the EnterLesson calls that built the record

vars == <<unique, coll, clock, pc, call, now, tracking, response, ops, faults,
          entered, opened, raced, run>>

history == <<entered, opened, raced, run>>

----------------------------------------------------------------------------
\* The store (pymongo collection with a unique index on user_id).

\* Index of the first document at or after position i that matches the
\* filter {"user_id": user_id}, 0 when there is none.
RECURSIVE FirstMatch(_, _, _)
FirstMatch(c, user_id, i) ==
    IF i > Len(c) THEN 0
    ELSE IF c[i].user_id = user_id THEN i
    ELSE FirstMatch(c, user_id, i + 1)

HasDoc(c, user_id) == FirstMatch(c, user_id, 1) # 0

\* Variant: the filter is left out of the query.
find_one_any(c, user_id) ==
    IF Len(c) > 0 THEN c[1] ELSE None

\* find_one(filter): the first document that matches, or None.
find_one(c, user_id) ==
    IF HasDoc(c, user_id) THEN c[FirstMatch(c, user_id, 1)] ELSE None

\* update_one(filter, {"$set": ...}) without upsert: the first document that
\* matches is changed in place; no match, no write.
update_one(c, user_id, active_lessons, current_lesson, last_updated) ==
    LET i == FirstMatch(c, user_id, 1) IN
    IF i = 0 THEN c
    ELSE [c EXCEPT ![i] = [@ EXCEPT !.active_lessons = active_lessons,
                                    !.current_lesson = current_lesson,
                                    !.last_updated = last_updated]]

\* The unique index, when the collection has it, makes insert_one raise
\* DuplicateKeyError.
DuplicateKey(c, doc) == unique /\ HasDoc(c, doc.user_id)

\* insert_one(doc): the document is added after the others, whether or not
\* an equal one is there.
insert_one(c, doc) == Append(c, doc)

\* delete_one(filter): the first document that matches is removed.
delete_one(c, user_id) ==
    LET i == FirstMatch(c, user_id, 1) IN
    IF i = 0 THEN c
    ELSE SubSeq(c, 1, i - 1) \o SubSeq(c, i + 1, Len(c))

----------------------------------------------------------------------------
\* The pure parts of the service methods.

\* Variant: the entry is stamped with the earliest time, not with `now`.
new_lesson_epoch(lesson, tab_id, t) ==
    [lesson_id |-> lesson.lesson_id, serie_id |-> lesson.serie_id,
     lesson_title |-> lesson.lesson_title, tab_id |-> tab_id, last_active |-> 0]

new_lesson(lesson, tab_id, t) ==
    [lesson_id |-> lesson.lesson_id, serie_id |-> lesson.serie_id,
     lesson_title |-> lesson.lesson_title, tab_id |-> tab_id, last_active |-> t]

\* Variant: nothing is removed.
RemoveTab_none(active_lessons, tab_id) == active_lessons

\* [l for l in active_lessons if l.get("tab_id") != tab_id]
RemoveTab(active_lessons, tab_id) ==
    SelectSeq(active_lessons, LAMBDA l : l.tab_id # tab_id)

\* Variant: the entries of the other tabs are dropped.
EnterActive_only(active_lessons, entry) == <<entry>>

\* set_current_lesson, existing document: the list written back.
EnterActive(active_lessons, entry) ==
    Append(RemoveTab(active_lessons, entry.tab_id), entry)

\* update_focus: index of the first entry of the tab, 0 when there is none.
RECURSIVE FindTab(_, _, _)
FindTab(active_lessons, tab_id, i) ==
    IF i > Len(active_lessons) THEN 0
    ELSE IF active_lessons[i].tab_id = tab_id THEN i
    ELSE FindTab(active_lessons, tab_id, i + 1)

\* Variant: the last_active of every entry is refreshed.
FocusActive_all(active_lessons, i, t) ==
    [j \in 1..Len(active_lessons) |->
        [active_lessons[j] EXCEPT !.last_active = t]]

\* update_focus: lesson["last_active"] = now, in place in the list.
FocusActive(active_lessons, i, t) ==
    [active_lessons EXCEPT ![i].last_active = t]

\* Variant: the last entry with the maximum.
RECURSIVE MaxFrom_last(_, _, _)
MaxFrom_last(active_lessons, i, best) ==
    IF i > Len(active_lessons) THEN best
    ELSE MaxFrom_last(active_lessons, i + 1,
                 IF active_lessons[i].last_active >= active_lessons[best].last_active
                 THEN i ELSE best)

\* max(active_lessons, key=last_active): the first entry with the maximum.
RECURSIVE MaxFrom(_, _, _)
MaxFrom(active_lessons, i, best) ==
    IF i > Len(active_lessons) THEN best
    ELSE MaxFrom(active_lessons, i + 1,
                 IF active_lessons[i].last_active > active_lessons[best].last_active
                 THEN i ELSE best)

most_recent(active_lessons) == active_lessons[MaxFrom(active_lessons, 2, 1)]

----------------------------------------------------------------------------
\* Results of the service methods and the responses of the handlers.

Ok(message) == [success |-> TRUE, message |-> message]
OkData(message, data) == [success |-> TRUE, message |-> message, data |-> data]
Fail(message) == [success |-> FALSE, message |-> message]

\* f"Lesson cleared, {len(active_lessons)} tabs remaining"
ClearedMessage(n) == "Lesson cleared, " \o ToString(n) \o " tabs remaining"

\* The `except Exception` branch of each service method.
Raised(op) ==
    CASE op = "enter" -> Fail("Failed to set current lesson: error")
      [] op = "focus" -> Fail("Failed to update focus: error")
      [] op = "exit" -> Fail("Failed to clear current lesson: error")

\* enter_lesson / exit_lesson / update_lesson_focus: a result without
\* success raises HTTPException(500), whatever the reason.
Respond(result) ==
    IF result.success
    THEN [status_code |-> 200, body |-> result]
    ELSE [status_code |-> 500, body |-> [detail |-> result.message]]

\* lesson_copy["last_active"] = lesson_copy["last_active"].isoformat()
isoformat(t) == [iso |-> t]

Serializable(active_lessons) ==
    [i \in 1..Len(active_lessons) |->
        [active_lessons[i] EXCEPT !.last_active = isoformat(@)]]

\* _fetch_lesson_details: the lesson of that serie, or None.
fetch_lesson_details(serie_id, lesson_id) ==
    LET found == { l \in LessonsCollection :
                     l.id = lesson_id /\ l.lesson_serie = serie_id } IN
    IF found = {} THEN None
    ELSE LET l == CHOOSE x \in found : TRUE IN
         [lesson_title |-> l.lesson_title, lesson_serie |-> l.lesson_serie]

\* get_current_lesson (route): the view of a user who is in no lesson.
AbsentView(user_id) ==
    [user_id |-> user_id, lesson_id |-> "None", serie_id |-> "None",
     lesson_title |-> NoTitle, last_updated |-> None, is_in_lesson |-> FALSE,
     active_lessons |-> <<>>, total_active_tabs |-> 0, lesson_data |-> None]

\* Variant: the lesson reported is the one of the last entry of the list.
CurrentView_last(doc, lesson_data) ==
    LET last == doc.active_lessons[Len(doc.active_lessons)] IN
    [user_id |-> doc.user_id,
     lesson_id |-> last.lesson_id,
     serie_id |-> last.serie_id,
     lesson_title |-> last.lesson_title,
     last_updated |-> doc.last_updated,
     is_in_lesson |-> TRUE,
     active_lessons |-> Serializable(doc.active_lessons),
     total_active_tabs |-> Len(doc.active_lessons),
     lesson_data |-> lesson_data]

\* get_current_lesson (service + route): the view of a tracked user.
CurrentView(doc, lesson_data) ==
    [user_id |-> doc.user_id,
     lesson_id |-> doc.current_lesson.lesson_id,
     serie_id |-> doc.current_lesson.serie_id,
     lesson_title |-> doc.current_lesson.lesson_title,
     last_updated |-> doc.last_updated,
     is_in_lesson |-> TRUE,
     active_lessons |-> Serializable(doc.active_lessons),
     total_active_tabs |-> Len(doc.active_lessons),
     lesson_data |-> lesson_data]

----------------------------------------------------------------------------
NoCall ==
    [op |-> "none", user_id |-> "-", tab_id |-> "-", lesson |-> NoLesson,
     fresh |-> TRUE]

\* `run` of a user without record: no call yet.  A run stops being one of
\* EnterLesson calls with distinct tabs at the first other write.
EmptyRun == [valid |-> TRUE, entries |-> <<>>]
NoRun == [valid |-> FALSE, entries |-> <<>>]

\* The service starts on an empty collection, on which _create_indexes has
\* created the unique index or has logged the error of create_index and
\* gone on (`created`: the outcomes); `users` are the users whose history
\* is kept.
Started(users, created) ==
    /\ unique \in created
    /\ coll = <<>>
    /\ clock = 0
    /\ pc = [p \in Procs |-> "idle"]
    /\ call = [p \in Procs |-> NoCall]
    /\ now = [p \in Procs |-> 0]
    /\ tracking = [p \in Procs |-> None]
    /\ response = None
    /\ ops = 0
    /\ faults = 0
    /\ entered = [u \in users |-> FALSE]
    /\ opened = [u \in users |-> {}]
    /\ raced = [u \in users |-> FALSE]
    /\ run = [u \in users |-> EmptyRun]

\* The start of a service whose create_index worked.
InitFor(users) == Started(users, {TRUE})

Init == InitFor(Users)

\* The clock advances.
Tick ==
    /\ clock' = clock + 1
    /\ response' = None
    /\ UNCHANGED <<unique, coll, pc, call, now, tracking, ops, faults, history>>

\* A store call either works or raises; a call that raises changes nothing.
StoreCall(ok) ==
    /\ ok \/ faults < MaxFaults
    /\ faults' = IF ok THEN faults ELSE faults + 1

\* The handler returns `r` to the client.
Return(p, r) ==
    /\ response' = [call |-> call[p], http |-> r]
    /\ opened' = IF call[p].op = "exit" /\ r.status_code = 200 /\ call[p].fresh
                  THEN [opened EXCEPT ![call[p].user_id] = @ \ {call[p].tab_id}]
                  ELSE opened
    /\ UNCHANGED <<entered, raced>>
    /\ pc' = [pc EXCEPT ![p] = "idle"]
    /\ call' = [call EXCEPT ![p] = NoCall]
    /\ now' = [now EXCEPT ![p] = 0]
    /\ tracking' = [tracking EXCEPT ![p] = None]

\* A request arrives and goes to the first free worker; set_current_lesson
\* and update_focus read the clock first thing (lines 95, 165).  An
\* ExitLesson counts as closing the tab (`fresh`) when it is received after
\* the EnterLesson calls of that tab have returned and none is received
\* while it is served.
Receive(p, op, user_id, tab_id, lesson) ==
    LET entering(q) == /\ pc[q] # "idle" /\ call[q].op = "enter"
                       /\ call[q].user_id = user_id /\ call[q].tab_id = tab_id
        exiting(q) == /\ pc[q] # "idle" /\ call[q].op = "exit"
                      /\ call[q].user_id = user_id /\ call[q].tab_id = tab_id
    IN
    /\ pc[p] = "idle"
    /\ \A q \in Procs : q < p => pc[q] # "idle"
    /\ ops' = ops + 1
    /\ call' = [q \in Procs |->
                  IF q = p
                  THEN [op |-> op, user_id |-> user_id, tab_id |-> tab_id,
                        lesson |-> lesson,
                        fresh |-> ~\E r \in Procs : entering(r)]
                  ELSE IF op = "enter" /\ exiting(q)
                  THEN [call[q] EXCEPT !.fresh = FALSE]
                  ELSE call[q]]
    /\ pc' = [pc EXCEPT ![p] = "find"]
    /\ now' = [now EXCEPT ![p] = IF op \in {"enter", "focus"} THEN clock ELSE 0]
    /\ response' = None
    /\ entered' = [entered EXCEPT ![user_id] = @ \/ op = "enter"]
    /\ opened' = [opened EXCEPT ![user_id] =
                    IF op = "enter" THEN @ \cup {tab_id} ELSE @]
    /\ raced' = [raced EXCEPT ![user_id] =
                   @ \/ \E q \in Procs : pc[q] # "idle" /\ call[q].user_id = user_id]
    /\ UNCHANGED <<unique, coll, clock, tracking, faults, run>>

\* The method goes on to its next store call with `d` as its `tracking`
\* and `t` as its reading of the clock.
Goto(p, label, d, t) ==
    /\ pc' = [pc EXCEPT ![p] = label]
    /\ tracking' = [tracking EXCEPT ![p] = d]
    /\ now' = [now EXCEPT ![p] = t]
    /\ response' = None
    /\ UNCHANGED <<call, history>>

\* set_current_lesson, line 106.
set_current_lesson_find(p, ok) ==
    IF ok THEN Goto(p, "write", find_one(coll, call[p].user_id), now[p])
    ELSE Return(p, Respond(Raised("enter")))

\* Variant: a user without record is answered as by clear_current_lesson.
update_focus_find_noop(p, ok) ==
    LET d == find_one(coll, call[p].user_id) IN
    IF ~ok THEN Return(p, Respond(Raised("focus")))
    ELSE IF d = None THEN Return(p, Respond(Ok("No tracking data found")))
    ELSE IF FindTab(d.active_lessons, call[p].tab_id, 1) = 0
    THEN Return(p, Respond(Fail("Tab not found in active lessons")))
    ELSE Goto(p, "write", d, now[p])

\* update_focus, lines 168-190.
update_focus_find(p, ok) ==
    LET d == find_one(coll, call[p].user_id) IN
    IF ~ok THEN Return(p, Respond(Raised("focus")))
    ELSE IF d = None
    THEN Return(p, Respond(Fail("No tracking data found for user")))
    ELSE IF FindTab(d.active_lessons, call[p].tab_id, 1) = 0
    THEN Return(p, Respond(Fail("Tab not found in active lessons")))
    ELSE Goto(p, "write", d, now[p])

\* clear_current_lesson, lines 283-288: with the record read, the method
\* goes on to delete_one when no tab remains and to its reading of the
\* clock when one does.
clear_current_lesson_next(p, d) ==
    IF Len(RemoveTab(d.active_lessons, call[p].tab_id)) = 0
    THEN "write" ELSE "clock"

\* Variant: a user without record is answered as by update_focus.
clear_current_lesson_find_fail(p, ok) ==
    LET d == find_one(coll, call[p].user_id) IN
    IF ~ok THEN Return(p, Respond(Raised("exit")))
    ELSE IF d = None
    THEN Return(p, Respond(Fail("No tracking data found for user")))
    ELSE Goto(p, clear_current_lesson_next(p, d), d, now[p])

\* clear_current_lesson, lines 275-288.
clear_current_lesson_find(p, ok) ==
    LET d == find_one(coll, call[p].user_id) IN
    IF ~ok THEN Return(p, Respond(Raised("exit")))
    ELSE IF d = None THEN Return(p, Respond(Ok("No tracking data found")))
    ELSE Goto(p, clear_current_lesson_next(p, d), d, now[p])

\* get_current_lesson, lines 226-257; a failed read returns None, which the
\* handler answers with the view of a user who is in no lesson.
get_current_lesson_find(p, ok) ==
    LET d == find_one(coll, call[p].user_id) IN
    IF ~ok \/ d = None \/ d.current_lesson = None
    THEN Return(p, [status_code |-> 200, body |-> AbsentView(call[p].user_id)])
    ELSE IF d.current_lesson.lesson_id # "" /\ d.current_lesson.serie_id # ""
    THEN Goto(p, "fetch", d, now[p])
    ELSE Return(p, [status_code |-> 200, body |-> CurrentView(d, None)])

\* The find_one of the method being served.
Find(p, outcomes) ==
    /\ pc[p] = "find"
    /\ \E ok \in outcomes :
         /\ StoreCall(ok)
         /\ CASE call[p].op = "enter" -> set_current_lesson_find(p, ok)
              [] call[p].op = "focus" -> update_focus_find(p, ok)
              [] call[p].op = "exit" -> clear_current_lesson_find(p, ok)
              [] call[p].op = "current" -> get_current_lesson_find(p, ok)
    /\ UNCHANGED <<unique, coll, clock, ops, run>>

\* clear_current_lesson, line 306: once find_one has answered and a tab
\* remains, the method reads the clock while it builds the update it is
\* about to send; it is a step of its own, after which the write is sent.
clear_current_lesson_now(p) ==
    /\ pc[p] = "clock"
    /\ Goto(p, "write", tracking[p], clock)
    /\ UNCHANGED <<unique, coll, clock, ops, faults>>

\* set_current_lesson, lines 108-136: whether insert_one raises, and the
\* collection after the write.
set_current_lesson_raises(c, d, user_id) ==
    d = None /\ DuplicateKey(c, [user_id |-> user_id])

\* Variant: on an existing record the focus is left where it was.
set_current_lesson_write_nofocus(c, d, user_id, entry, t) ==
    IF d # None
    THEN update_one(c, user_id, EnterActive(d.active_lessons, entry),
                    d.current_lesson, t)
    ELSE insert_one(c, [user_id |-> user_id, active_lessons |-> <<entry>>,
                        current_lesson |-> entry, last_updated |-> t])

\* Variant: the entry is added to the list that is in the store at the write.
set_current_lesson_write_merge(c, d, user_id, entry, t) ==
    IF d # None
    THEN update_one(c, user_id,
                    EnterActive(IF HasDoc(c, user_id)
                                THEN find_one(c, user_id).active_lessons
                                ELSE d.active_lessons, entry),
                    entry, t)
    ELSE insert_one(c, [user_id |-> user_id, active_lessons |-> <<entry>>,
                        current_lesson |-> entry, last_updated |-> t])

set_current_lesson_write(c, d, user_id, entry, t) ==
    IF d # None
    THEN update_one(c, user_id, EnterActive(d.active_lessons, entry), entry, t)
    ELSE insert_one(c, [user_id |-> user_id, active_lessons |-> <<entry>>,
                        current_lesson |-> entry, last_updated |-> t])

set_current_lesson_result(c) ==
    OkData("Current lesson set successfully",
           [user_id |-> c.user_id, lesson_id |-> c.lesson.lesson_id,
            serie_id |-> c.lesson.serie_id,
            lesson_title |-> c.lesson.lesson_title, tab_id |-> c.tab_id])

\* update_focus, lines 176-202.
focused_lesson(d, tab_id, t) ==
    LET i == FindTab(d.active_lessons, tab_id, 1) IN
    FocusActive(d.active_lessons, i, t)[i]

\* Variant: the focused entry written is the one read, not the refreshed one.
update_focus_write_stale(c, d, user_id, tab_id, t) ==
    LET i == FindTab(d.active_lessons, tab_id, 1) IN
    update_one(c, user_id, FocusActive(d.active_lessons, i, t),
               d.active_lessons[i], t)

update_focus_write(c, d, user_id, tab_id, t) ==
    LET i == FindTab(d.active_lessons, tab_id, 1) IN
    update_one(c, user_id, FocusActive(d.active_lessons, i, t),
               focused_lesson(d, tab_id, t), t)

\* clear_current_lesson, lines 283-309; `t` is the reading of line 306.
\* Variant: the record is left in the store when no tab remains.
clear_current_lesson_write_nodelete(c, d, user_id, tab_id, t) ==
    LET active_lessons == RemoveTab(d.active_lessons, tab_id) IN
    IF Len(active_lessons) = 0 THEN c
    ELSE update_one(c, user_id, active_lessons, most_recent(active_lessons), t)

\* Variant: the record is written back even when no tab remains.
clear_current_lesson_write_keep(c, d, user_id, tab_id, t) ==
    LET active_lessons == RemoveTab(d.active_lessons, tab_id) IN
    update_one(c, user_id, active_lessons,
               IF Len(active_lessons) = 0 THEN None
               ELSE most_recent(active_lessons), t)

\* Variant: the record written back keeps the last_updated that was read.
clear_current_lesson_write_notime(c, d, user_id, tab_id, t) ==
    LET active_lessons == RemoveTab(d.active_lessons, tab_id) IN
    IF Len(active_lessons) = 0 THEN delete_one(c, user_id)
    ELSE update_one(c, user_id, active_lessons, most_recent(active_lessons),
                    d.last_updated)

clear_current_lesson_write(c, d, user_id, tab_id, t) ==
    LET active_lessons == RemoveTab(d.active_lessons, tab_id) IN
    IF Len(active_lessons) = 0 THEN delete_one(c, user_id)
    ELSE update_one(c, user_id, active_lessons, most_recent(active_lessons), t)

clear_current_lesson_result(d, tab_id) ==
    LET active_lessons == RemoveTab(d.active_lessons, tab_id) IN
    IF Len(active_lessons) = 0 THEN Ok("All lessons cleared")
    ELSE Ok(ClearedMessage(Len(active_lessons)))

\* `run` after a write that was answered with `r`.
RunAfter(r, c, docs) ==
    LET old == run[c.user_id]
        fresh_tab == \A i \in 1..Len(old.entries) :
                        old.entries[i].tab_id # c.tab_id
        entry == [tab_id |-> c.tab_id, lesson_id |-> c.lesson.lesson_id]
    IN
    IF r.status_code # 200 THEN run
    ELSE IF c.op = "enter"
    THEN [run EXCEPT ![c.user_id] =
            IF old.valid /\ fresh_tab
            THEN [valid |-> TRUE, entries |-> Append(old.entries, entry)]
            ELSE NoRun]
    ELSE [run EXCEPT ![c.user_id] =
            IF HasDoc(docs, c.user_id) THEN NoRun ELSE EmptyRun]

\* The write of the method being served, and its return.
Write(p, outcomes) ==
    LET c == call[p]
        d == tracking[p]
        entry == new_lesson(c.lesson, c.tab_id, now[p])
    IN
    /\ pc[p] = "write"
    /\ \E ok \in outcomes :
         /\ StoreCall(ok)
         /\ CASE c.op = "enter" ->
                   IF ok /\ ~set_current_lesson_raises(coll, d, c.user_id)
                   THEN /\ coll' = set_current_lesson_write(
                                      coll, d, c.user_id, entry, now[p])
                        /\ Return(p, Respond(set_current_lesson_result(c)))
                   ELSE coll' = coll /\ Return(p, Respond(Raised("enter")))
              [] c.op = "focus" ->
                   IF ok
                   THEN /\ coll' = update_focus_write(
                                      coll, d, c.user_id, c.tab_id, now[p])
                        /\ Return(p, Respond(OkData(
                              "Focus updated successfully",
                              focused_lesson(d, c.tab_id, now[p]))))
                   ELSE coll' = coll /\ Return(p, Respond(Raised("focus")))
              [] c.op = "exit" ->
                   IF ok
                   THEN /\ coll' = clear_current_lesson_write(
                                      coll, d, c.user_id, c.tab_id, now[p])
                        /\ Return(p, Respond(
                              clear_current_lesson_result(d, c.tab_id)))
                   ELSE coll' = coll /\ Return(p, Respond(Raised("exit")))
    /\ run' = RunAfter(response'.http, c, coll')
    /\ UNCHANGED <<unique, clock, ops>>

\* Variant: a lookup that raises fails the request.
Fetch_propagates(p, outcomes) ==
    LET d == tracking[p] IN
    /\ pc[p] = "fetch"
    /\ \E ok \in outcomes :
         /\ StoreCall(ok)
         /\ IF ok
            THEN Return(p, [status_code |-> 200,
                            body |-> CurrentView(d, fetch_lesson_details(
                                        d.current_lesson.serie_id,
                                        d.current_lesson.lesson_id))])
            ELSE Return(p, [status_code |-> 500, body |-> [detail |-> "error"]])
    /\ UNCHANGED <<unique, coll, clock, ops, run>>

\* get_current_lesson, lines 258-263: the lookup in the lessons collection;
\* a lookup that raises or finds nothing leaves the view without lesson_data.
Fetch(p, outcomes) ==
    LET d == tracking[p] IN
    /\ pc[p] = "fetch"
    /\ \E ok \in outcomes :
         /\ StoreCall(ok)
         /\ Return(p, [status_code |-> 200,
                       body |-> CurrentView(d,
                           IF ok THEN fetch_lesson_details(
                                        d.current_lesson.serie_id,
                                        d.current_lesson.lesson_id)
                           ELSE None)])
    /\ UNCHANGED <<unique, coll, clock, ops, run>>

\* The requests clients send.
Enter(p, users, enters) ==
    \E u \in users, e \in enters : Receive(p, "enter", u, e[1], e[2])

Exit(p, users, tabs) ==
    \E u \in users, t \in tabs : Receive(p, "exit", u, t, NoLesson)

Focus(p, users, tabs) ==
    \E u \in users, t \in tabs : Receive(p, "focus", u, t, NoLesson)

\* The answer of the router to a path that matches no route.
NotFound == [status_code |-> 404, body |-> [detail |-> "Not Found"]]

\* A request that matches no route is answered before any handler runs.
Unrouted(p, op) ==
    /\ pc[p] = "idle"
    /\ ops' = ops + 1
    /\ response' = [call |-> [NoCall EXCEPT !.op = op], http |-> NotFound]
    /\ UNCHANGED <<unique, coll, clock, pc, call, now, tracking, faults, history>>

\* GET /user/{user_id}/current: the path parameter matches a segment that is
\* not empty.
Current(p, users) ==
    \E u \in users :
        IF u = "" THEN Unrouted(p, "current")
        ELSE Receive(p, "current", u, "-", NoLesson)

\* No request is being served.
Quiescent == \A p \in Procs : pc[p] = "idle"

\* Spec: the writers of one user's record, served concurrently by two
\* workers over a store that does not fail.
Next ==
    \/ clock < MaxClock /\ Tick
    \/ \E p \in Procs :
         \/ ops < MaxOps /\ Enter(p, Users, Enters)
         \/ ops < MaxOps /\ Exit(p, Users, Tabs)
         \/ ops < MaxOps /\ Focus(p, Users, Tabs)
         \/ Find(p, {TRUE})
         \/ clear_current_lesson_now(p)
         \/ Write(p, {TRUE})

Spec == Init /\ [][Next]_vars

\* SpecSeq: every request, served one after the other by one worker, over
\* a store whose calls may fail.
NextSeq ==
    \/ clock < SeqMaxClock /\ Tick
    \/ \E p \in SeqProcs :
         \/ ops < SeqMaxOps /\ Enter(p, Users, SeqEnters)
         \/ ops < SeqMaxOps /\ Exit(p, Users, SeqTabs)
         \/ ops < SeqMaxOps /\ Focus(p, Users, SeqTabs)
         \/ ops < SeqMaxOps /\ Current(p, Users)
         \/ Find(p, BOOLEAN)
         \/ clear_current_lesson_now(p)
         \/ Write(p, BOOLEAN)
         \/ Fetch(p, BOOLEAN)

SpecSeq == Init /\ [][NextSeq]_vars

----------------------------------------------------------------------------
\* Vocabulary of the properties.

Doc(docs, user_id) == find_one(docs, user_id)

\* The documents of a collection.
Records(c) == { c[i] : i \in 1..Len(c) }

TabsOf(active_lessons) ==
    { active_lessons[i].tab_id : i \in 1..Len(active_lessons) }

\* Worker p makes the write of a method, or ends its find_one step.
WriteStep(p, op) == pc[p] = "write" /\ pc'[p] = "idle" /\ call[p].op = op
FindStep(p, op) == pc[p] = "find" /\ pc'[p] # "find" /\ call[p].op = op

\* The step answers the request with success.
Succeeds == response' # None /\ response'.http.status_code = 200

\* The response in the current state is the one of a request `op`.
Answered(op) == response # None /\ response.call.op = op

\* The entry with the maximum last_active, the first one among equals.
FirstMax(active_lessons) ==
    CHOOSE i \in 1..Len(active_lessons) :
        /\ \A j \in 1..Len(active_lessons) :
              active_lessons[j].last_active <= active_lessons[i].last_active
        /\ \A j \in 1..(i - 1) :
              active_lessons[j].last_active < active_lessons[i].last_active

----------------------------------------------------------------------------
\* C1: in every reachable state, interleaved requests included, the
\* current_lesson of a stored record is equal to one of the entries of its
\* active_lessons (and so has that entry's tab_id).
FocusIsActiveEntry ==
    \A d \in Records(coll) :
        \E i \in 1..Len(d.active_lessons) :
            /\ d.active_lessons[i] = d.current_lesson
            /\ d.active_lessons[i].tab_id = d.current_lesson.tab_id

\* After overlapping requests the record has two tabs and the focus is on
\* the first one, whose last_active was refreshed by UpdateFocus.
FocusIsActiveEntryWitness ==
    \E d \in Records(coll) :
        /\ raced[d.user_id]
        /\ Len(d.active_lessons) = 2
        /\ d.current_lesson = d.active_lessons[1]
        /\ d.current_lesson.last_active > d.active_lessons[2].last_active

\* C7: in every reachable state a stored record has at least one entry in
\* active_lessons and a focused entry.
RecordNeverEmpty ==
    \A d \in Records(coll) : Len(d.active_lessons) >= 1 /\ d.current_lesson # None

\* An ExitLesson has just written back a record that still has a tab.
RecordNeverEmptyWitness ==
    /\ Answered("exit")
    /\ response.http.status_code = 200
    /\ raced[response.call.user_id]
    /\ HasDoc(coll, response.call.user_id)
    /\ Len(Doc(coll, response.call.user_id).active_lessons) = 1

\* C2: under SpecSeq (no interleaving), an EnterLesson answered with success
\* leaves a record whose focused entry has the tab_id and the lesson_id of
\* the request, whatever the record was before.
EnterTakesFocus ==
    [][\A p \in Procs :
         (WriteStep(p, "enter") /\ Succeeds) =>
            /\ HasDoc(coll', call[p].user_id)
            /\ Doc(coll', call[p].user_id).current_lesson.tab_id = call[p].tab_id
            /\ Doc(coll', call[p].user_id).current_lesson.lesson_id
                  = call[p].lesson.lesson_id]_vars

\* EnterLesson has just succeeded on a record that holds other tabs and
\* that was not built by first-time enters alone; the focus is on its tab.
EnterTakesFocusWitness ==
    /\ Answered("enter")
    /\ response.http.status_code = 200
    /\ ~run[response.call.user_id].valid
    /\ Len(Doc(coll, response.call.user_id).active_lessons) >= 2
    /\ Doc(coll, response.call.user_id).current_lesson.tab_id
          = response.call.tab_id

\* C3: under SpecSeq, when the record of a user was built from no record by
\* N successful EnterLesson calls with pairwise distinct tab_ids, a
\* GetCurrent whose read does not fail reports total_active_tabs = N and
\* the lesson of the last of these calls as the focused lesson.
EnterRunIsCounted ==
    [][\A p \in Procs :
         LET r == run[call[p].user_id] IN
         ( /\ pc[p] \in {"find", "fetch"}
           /\ call[p].op = "current"
           /\ response' # None
           /\ pc[p] = "find" => faults' = faults
           /\ r.valid
           /\ Len(r.entries) >= 1 ) =>
            /\ response'.http.body.is_in_lesson
            /\ response'.http.body.total_active_tabs = Len(r.entries)
            /\ response'.http.body.lesson_id
                  = r.entries[Len(r.entries)].lesson_id]_vars

\* GetCurrent answers after three enters in three tabs.
EnterRunIsCountedWitness ==
    /\ Answered("current")
    /\ run[response.call.user_id].valid
    /\ Len(run[response.call.user_id].entries) = 3
    /\ response.http.body.total_active_tabs = 3
    /\ response.http.body.lesson_id
          = run[response.call.user_id].entries[3].lesson_id

\* C4: in every reachable state, interleaved requests included, no two
\* entries of a record have the same tab_id; and an EnterLesson that
\* succeeds for a tab present in the record it read, the record being still
\* as read, keeps the number of entries, leaves the other tabs' entries as
\* they were and stores the lesson of the request for that tab.
NoDuplicateTab ==
    \A d \in Records(coll) :
        \A i, j \in 1..Len(d.active_lessons) :
            d.active_lessons[i].tab_id = d.active_lessons[j].tab_id => i = j

EnterReplacesTab ==
    \A p \in Procs :
        LET u == call[p].user_id
            before == Doc(coll, u).active_lessons
            after == Doc(coll', u).active_lessons
        IN
        ( /\ WriteStep(p, "enter") /\ Succeeds
          /\ HasDoc(coll, u) /\ Doc(coll, u) = tracking[p]
          /\ call[p].tab_id \in TabsOf(before) ) =>
            /\ HasDoc(coll', u)
            /\ Len(after) = Len(before)
            /\ TabsOf(after) = TabsOf(before)
            /\ \A i \in 1..Len(after) :
                  IF after[i].tab_id = call[p].tab_id
                  THEN /\ after[i].lesson_id = call[p].lesson.lesson_id
                       /\ after[i].serie_id = call[p].lesson.serie_id
                       /\ after[i].last_active = now[p]
                  ELSE \E j \in 1..Len(before) : before[j] = after[i]

TabUniqueReplaceOnWrite == []NoDuplicateTab /\ [][EnterReplacesTab]_vars

\* Tab t1 is entered a second time, with the other lesson, while the record
\* holds two tabs: it still holds two.
TabUniqueReplaceOnWriteWitness ==
    /\ Answered("enter")
    /\ response.http.status_code = 200
    /\ response.call.tab_id = "t1"
    /\ response.call.lesson = Lesson1
    /\ ~run[response.call.user_id].valid
    /\ HasDoc(coll, response.call.user_id)
    /\ LET al == Doc(coll, response.call.user_id).active_lessons IN
          /\ Len(al) = 2
          /\ al[1].tab_id = "t2"
          /\ al[2].tab_id = "t1" /\ al[2].lesson_id = "l1"

\* C5: under SpecSeq, an ExitLesson that leaves at least one entry writes a
\* record whose entries are those of the other tabs and whose focused entry
\* is the one with the maximum last_active, the first of them in list order
\* among equals; the message reports the number of remaining entries; with
\* two tabs open, exiting the focused one moves the focus to the other.
ExitReelectsMostRecent ==
    [][\A p \in Procs :
         LET u == call[p].user_id
             before == Doc(coll, u).active_lessons
             after == Doc(coll', u).active_lessons
         IN
         ( /\ WriteStep(p, "exit") /\ Succeeds
           /\ HasDoc(coll, u)
           /\ TabsOf(before) \ {call[p].tab_id} # {} ) =>
            /\ HasDoc(coll', u)
            /\ TabsOf(after) = TabsOf(before) \ {call[p].tab_id}
            /\ Len(after) = Cardinality(TabsOf(after))
            /\ Doc(coll', u).current_lesson = after[FirstMax(after)]
            /\ response'.http.body.message = ClearedMessage(Len(after))
            /\ ( /\ Len(before) = 2
                 /\ Doc(coll, u).current_lesson.tab_id = call[p].tab_id ) =>
                    /\ Len(after) = 1
                    /\ Doc(coll', u).current_lesson.tab_id # call[p].tab_id
                    /\ Doc(coll', u).current_lesson.tab_id \in TabsOf(before)]_vars

\* An exit has left two tabs of equal last_active and the focus on the
\* first of them.
ExitReelectsMostRecentWitness ==
    /\ Answered("exit")
    /\ response.http.status_code = 200
    /\ response.http.body.message = "Lesson cleared, 2 tabs remaining"
    /\ LET d == Doc(coll, response.call.user_id) IN
          /\ Len(d.active_lessons) = 2
          /\ d.active_lessons[1].last_active = d.active_lessons[2].last_active
          /\ d.current_lesson = d.active_lessons[1]

\* C6: under SpecSeq, an ExitLesson that succeeds on a record whose only tab
\* is the exited one deletes the record, and a GetCurrent whose read does
\* not fail, for a user without record, answers the Absent view.
ExitLastTabDeletes ==
    [][\A p \in Procs :
         LET u == call[p].user_id IN
         /\ ( /\ WriteStep(p, "exit") /\ Succeeds
              /\ HasDoc(coll, u)
              /\ TabsOf(Doc(coll, u).active_lessons) = {call[p].tab_id} ) =>
                 /\ ~HasDoc(coll', u)
                 /\ response'.http.body.message = "All lessons cleared"
         /\ ( /\ FindStep(p, "current") /\ faults' = faults
              /\ ~HasDoc(coll, u) ) =>
                 /\ response' # None
                 /\ response'.http.status_code = 200
                 /\ response'.http.body.user_id = u
                 /\ ~response'.http.body.is_in_lesson
                 /\ response'.http.body.active_lessons = <<>>
                 /\ response'.http.body.total_active_tabs = 0
                 /\ coll' = coll]_vars

\* GetCurrent answers Absent for a user who entered lessons and has exited
\* every tab, no store call having failed.
ExitLastTabDeletesWitness ==
    /\ Answered("current")
    /\ ~response.http.body.is_in_lesson
    /\ response.http.body.total_active_tabs = 0
    /\ entered[response.call.user_id]
    /\ opened[response.call.user_id] = {}
    /\ faults = 0
    /\ coll = <<>>

\* C8 as stated: in every quiescent state, whatever the interleaving, a user
\* all of whose entered tabs have since been exited with success has no
\* record, and a user who never entered a lesson has none.
ClosedUserHasNoRecord ==
    \A u \in Users :
        /\ (Quiescent /\ opened[u] = {}) => ~HasDoc(coll, u)
        /\ ~entered[u] => ~HasDoc(coll, u)

\* C8 as amended: the same for a user whose requests never overlapped in
\* time.
ClosedUserHasNoRecordUnraced ==
    \A u \in Users :
        /\ (Quiescent /\ ~raced[u] /\ opened[u] = {}) => ~HasDoc(coll, u)
        /\ ~entered[u] => ~HasDoc(coll, u)

\* Four requests, one after the other, have entered and exited; the last
\* exit has just deleted the record.
ClosedUserHasNoRecordWitness ==
    /\ Quiescent
    /\ ops = 4
    /\ Answered("exit")
    /\ response.http.body.message = "All lessons cleared"
    /\ entered[response.call.user_id]
    /\ ~raced[response.call.user_id]
    /\ opened[response.call.user_id] = {}
    /\ coll = <<>>

\* C9: under SpecSeq, an UpdateFocus whose read does not fail, for a user
\* without record or for a tab that is not in the record, is answered with
\* a failure carrying the not-found message, at the end of its read, and
\* the collection is unchanged.
FocusUnknownFails ==
    [][\A p \in Procs :
         LET u == call[p].user_id IN
         ( /\ FindStep(p, "focus") /\ faults' = faults
           /\ \/ ~HasDoc(coll, u)
              \/ call[p].tab_id \notin TabsOf(Doc(coll, u).active_lessons) ) =>
            /\ response' # None
            /\ response'.http.status_code # 200
            /\ response'.http.body.detail =
                  IF HasDoc(coll, u) THEN "Tab not found in active lessons"
                  ELSE "No tracking data found for user"
            /\ pc'[p] = "idle"
            /\ coll' = coll]_vars

\* UpdateFocus has just failed for a tab that is not in the user's record.
FocusUnknownFailsWitness ==
    /\ Answered("focus")
    /\ response.http.status_code # 200
    /\ response.http.body.detail = "Tab not found in active lessons"
    /\ HasDoc(coll, response.call.user_id)
    /\ response.call.tab_id
          \notin TabsOf(Doc(coll, response.call.user_id).active_lessons)

\* C10: under SpecSeq, for a user without record and a read that does not
\* fail, ExitLesson is answered with success and writes nothing, and
\* UpdateFocus is answered with a failure.
ExitAbsentIsNoop ==
    [][\A p \in Procs :
         ( /\ pc[p] = "find" /\ pc'[p] # "find" /\ faults' = faults
           /\ ~HasDoc(coll, call[p].user_id) ) =>
            /\ call[p].op = "exit" =>
                  /\ response' # None
                  /\ response'.http.status_code = 200
                  /\ response'.http.body.success
                  /\ coll' = coll
            /\ call[p].op = "focus" =>
                  /\ response' # None
                  /\ response'.http.status_code # 200]_vars

\* ExitLesson has just succeeded on an empty collection, which stays empty.
ExitAbsentIsNoopWitness ==
    /\ Answered("exit")
    /\ response.http.status_code = 200
    /\ response.http.body.message = "No tracking data found"
    /\ coll = <<>>

----------------------------------------------------------------------------
\* C11: under SpecSeq, an ExitLesson answered with success for a tab that is
\* not the most recently active one of the record (its last_active is below
\* the maximum, or the tab is not in the record) leaves the focus on the tab
\* it was on.
ExitElsewhereKeepsFocus ==
    [][\A p \in Procs :
         LET u == call[p].user_id
             before == Doc(coll, u).active_lessons
         IN
         ( /\ WriteStep(p, "exit") /\ Succeeds
           /\ HasDoc(coll, u)
           /\ \A i \in 1..Len(before) :
                 before[i].tab_id = call[p].tab_id =>
                    before[i].last_active < before[FirstMax(before)].last_active ) =>
            /\ HasDoc(coll', u)
            /\ Doc(coll', u).current_lesson.tab_id
                  = Doc(coll, u).current_lesson.tab_id]_vars

\* C12: under SpecSeq, no step of a GetCurrent changes the collection; a
\* GetCurrent whose read does not fail answers the Absent view when the user
\* has no record or the record has no focused entry, and otherwise answers
\* with the lesson_id and serie_id of the record's focused entry and with
\* total_active_tabs equal to the number of entries of active_lessons.
GetCurrentReadsOnly ==
    [][\A p \in Procs :
         LET u == call[p].user_id
             d == Doc(coll, u)
             absent == ~HasDoc(coll, u) \/ d.current_lesson = None
             read_ok == pc[p] = "find" => faults' = faults
         IN
         ( /\ pc[p] \in {"find", "fetch"} /\ pc'[p] # pc[p]
           /\ call[p].op = "current" ) =>
            /\ coll' = coll
            /\ (read_ok /\ absent) =>
                  /\ response' # None
                  /\ response'.http.status_code = 200
                  /\ ~response'.http.body.is_in_lesson
                  /\ response'.http.body.user_id = u
                  /\ response'.http.body.active_lessons = <<>>
                  /\ response'.http.body.total_active_tabs = 0
            /\ (read_ok /\ ~absent) =>
                  /\ response' # None \/ pc'[p] = "fetch"
                  /\ response' # None =>
                        /\ response'.http.status_code = 200
                        /\ response'.http.body.is_in_lesson
                        /\ response'.http.body.user_id = u
                        /\ response'.http.body.lesson_id = d.current_lesson.lesson_id
                        /\ response'.http.body.serie_id = d.current_lesson.serie_id
                        /\ response'.http.body.total_active_tabs
                              = Len(d.active_lessons)]_vars

\* GetCurrent answers for a record of two tabs whose focus is on the first
\* entry, which holds another lesson than the last entry.
GetCurrentReadsOnlyWitness ==
    /\ Answered("current")
    /\ response.http.body.is_in_lesson
    /\ response.http.body.total_active_tabs = 2
    /\ LET d == Doc(coll, response.call.user_id) IN
          /\ d.current_lesson = d.active_lessons[1]
          /\ d.active_lessons[2].lesson_id # d.current_lesson.lesson_id
          /\ response.http.body.lesson_id = d.current_lesson.lesson_id

\* C13: under SpecSeq, when the lookup in the lessons collection raises or
\* finds no lesson, GetCurrent still answers 200 with the view of the record
\* (identity of the focused lesson, serialized active_lessons, number of
\* tabs) and with no lesson_data; a lookup that finds the lesson answers the
\* same view with lesson_data; the lookup step leaves the collection as it
\* is.
LookupAbsenceKeepsView ==
    [][\A p \in Procs :
         LET u == call[p].user_id
             d == Doc(coll, u)
             found == fetch_lesson_details(d.current_lesson.serie_id,
                                           d.current_lesson.lesson_id)
             nothing == faults' # faults \/ found = None
         IN
         ( pc[p] = "fetch" /\ pc'[p] # "fetch" ) =>
            /\ coll' = coll
            /\ HasDoc(coll, u)
            /\ response' # None
            /\ response'.http.status_code = 200
            /\ response'.http.body.is_in_lesson
            /\ response'.http.body.user_id = u
            /\ response'.http.body.lesson_id = d.current_lesson.lesson_id
            /\ response'.http.body.serie_id = d.current_lesson.serie_id
            /\ response'.http.body.lesson_title = d.current_lesson.lesson_title
            /\ Len(response'.http.body.active_lessons) = Len(d.active_lessons)
            /\ \A i \in 1..Len(d.active_lessons) :
                  /\ response'.http.body.active_lessons[i].tab_id
                        = d.active_lessons[i].tab_id
                  /\ response'.http.body.active_lessons[i].lesson_id
                        = d.active_lessons[i].lesson_id
            /\ response'.http.body.total_active_tabs = Len(d.active_lessons)
            /\ response'.http.body.lesson_data = IF nothing THEN None ELSE found]_vars

\* GetCurrent answers without lesson_data for a focused lesson that is in
\* the lessons collection: the only store failure was the one of the lookup.
LookupAbsenceKeepsViewWitness ==
    /\ Answered("current")
    /\ response.http.status_code = 200
    /\ response.http.body.is_in_lesson
    /\ response.http.body.lesson_id = "l1"
    /\ response.http.body.serie_id = "s1"
    /\ fetch_lesson_details("s1", "l1") # None
    /\ response.http.body.lesson_data = None
    /\ response.http.body.total_active_tabs = 2

----------------------------------------------------------------------------
\* SpecUsers: the requests of two users, served concurrently by two workers
\* over a store that does not fail.  The clock stays at its first reading:
\* no timestamp takes part in the choice of the document a request touches.
UsersMaxOps == 4

TwoUsers == {"u1", "u2"}
UsersTabs == {"t1", "t2"}
UsersEnters == {<<"t1", Lesson1>>, <<"t2", Lesson2>>}

NextUsers ==
    \E p \in Procs :
        \/ ops < UsersMaxOps /\ Enter(p, TwoUsers, UsersEnters)
        \/ ops < UsersMaxOps /\ Exit(p, TwoUsers, UsersTabs)
        \/ ops < UsersMaxOps /\ Focus(p, TwoUsers, UsersTabs)
        \/ ops < UsersMaxOps /\ Current(p, TwoUsers)
        \/ Find(p, {TRUE})
        \/ clear_current_lesson_now(p)
        \/ Write(p, {TRUE})
        \/ Fetch(p, {TRUE})

SpecUsers == InitFor(TwoUsers) /\ [][NextUsers]_vars

\* The documents of user u in a collection.
Only(c, u) == SelectSeq(c, LAMBDA d : d.user_id = u)

\* What the write of the method served by worker p makes of a collection c.
WriteOn(c, p) ==
    LET k == call[p]
        d == tracking[p]
    IN
    CASE k.op = "enter" ->
           IF set_current_lesson_raises(c, d, k.user_id) THEN c
           ELSE set_current_lesson_write(
                   c, d, k.user_id, new_lesson(k.lesson, k.tab_id, now[p]), now[p])
      [] k.op = "focus" -> update_focus_write(c, d, k.user_id, k.tab_id, now[p])
      [] k.op = "exit" -> clear_current_lesson_write(c, d, k.user_id, k.tab_id, now[p])

\* C14: under SpecUsers, whatever the interleaving, a step of a request of
\* user u leaves the documents of every other user as they are and reads no
\* document of another user; and what it reads, writes and answers is what
\* the same step reads, writes and answers on the collection reduced to the
\* documents of u, that is, as if the other users' requests had not run.
UsersDoNotInteract ==
    [][\A p \in Procs :
         LET u == call[p].user_id
             mine == Only(coll, u)
             d == find_one(mine, u)
         IN
         ( pc[p] # "idle" /\ pc'[p] # pc[p] ) =>
            /\ \A v \in TwoUsers \ {u} : Only(coll', v) = Only(coll, v)
            /\ pc[p] = "find" =>
                  /\ coll' = coll
                  /\ tracking'[p] # None => tracking'[p] \in Records(mine)
                  /\ pc'[p] # "idle" => tracking'[p] = d
                  /\ call[p].op = "enter" => pc'[p] = "write"
                  /\ call[p].op = "exit" => (pc'[p] = "idle") = (mine = <<>>)
                  /\ call[p].op = "focus" =>
                        (pc'[p] = "idle") =
                           (mine = <<>> \/ call[p].tab_id \notin TabsOf(d.active_lessons))
                  /\ call[p].op = "current" =>
                        /\ (pc'[p] = "idle") =
                              (mine = <<>> \/ d.current_lesson.lesson_id = "")
                        /\ pc'[p] = "idle" =>
                              response'.http.body.is_in_lesson = (mine # <<>>)
            /\ pc[p] = "clock" => coll' = coll /\ tracking'[p] = tracking[p]
            /\ pc[p] = "write" =>
                  /\ Only(coll', u) = Only(WriteOn(mine, p), u)
                  /\ (response'.http.status_code = 200)
                        = ~( /\ call[p].op = "enter"
                             /\ set_current_lesson_raises(mine, tracking[p], u) )
            /\ pc[p] = "fetch" =>
                  /\ coll' = coll
                  /\ response'.http.body.user_id = u
                  /\ response'.http.body.total_active_tabs
                        = Len(tracking[p].active_lessons)]_vars

\* The last tab of u2 has just been exited with success, which deleted the
\* record of u2, while a request of u1, whose record is in the collection,
\* is between its read and its write.
UsersDoNotInteractWitness ==
    /\ Answered("exit")
    /\ response.call.user_id = "u2"
    /\ response.http.body.message = "All lessons cleared"
    /\ ~HasDoc(coll, "u2")
    /\ HasDoc(coll, "u1")
    /\ \E p \in Procs : pc[p] = "write" /\ call[p].user_id = "u1"

----------------------------------------------------------------------------
\* SpecRace: EnterLesson requests of one user for three tabs, served
\* concurrently by two workers over a store that does not fail.
RaceMaxOps == 3

RaceEnters == {<<"t1", Lesson1>>, <<"t2", Lesson2>>, <<"t3", Lesson2>>}

NextRace ==
    \/ clock < MaxClock /\ Tick
    \/ \E p \in Procs :
         \/ ops < RaceMaxOps /\ Enter(p, Users, RaceEnters)
         \/ Find(p, {TRUE})
         \/ Write(p, {TRUE})

SpecRace == Init /\ [][NextRace]_vars

\* The record of u is the one an EnterLesson of entry e, for a tab that is
\* not in d, writes after reading d.
EnteredOn(d, u, e) ==
    /\ HasDoc(coll, u)
    /\ e.tab_id \notin TabsOf(d.active_lessons)
    /\ Doc(coll, u).current_lesson = e
    /\ Doc(coll, u).active_lessons = EnterActive(d.active_lessons, e)

\* C15: under SpecRace, when an EnterLesson writes on a record it read
\* before another EnterLesson, for another tab that was not in the record,
\* read the same record and wrote, it is answered with success like the
\* other one and the record it leaves holds the tabs it read and its own
\* tab: the tab of the call that wrote first is lost.  Such an interleaving
\* is reachable (the witness).
EnterOverwritesEnter ==
    [][\A p \in Procs :
         LET u == call[p].user_id
             d == tracking[p]
             first == Doc(coll, u).current_lesson
             after == Doc(coll', u).active_lessons
         IN
         ( /\ WriteStep(p, "enter")
           /\ d # None
           /\ HasDoc(coll, u)
           /\ first.tab_id # call[p].tab_id
           /\ EnteredOn(d, u, first) ) =>
            /\ Succeeds
            /\ HasDoc(coll', u)
            /\ TabsOf(after) = TabsOf(d.active_lessons) \cup {call[p].tab_id}
            /\ first.tab_id \notin TabsOf(after)
            /\ Doc(coll', u).current_lesson.tab_id = call[p].tab_id]_vars

\* On the record holding tab t1, the EnterLesson calls of tabs t2 and t3
\* overlapped and were both answered with success; the record holds t1 and
\* the tab of the call answered last, and not the other tab.
EnterOverwritesEnterWitness ==
    /\ Quiescent
    /\ Answered("enter")
    /\ response.http.status_code = 200
    /\ opened[response.call.user_id] = {"t1", "t2", "t3"}
    /\ raced[response.call.user_id]
    /\ LET al == Doc(coll, response.call.user_id).active_lessons IN
          /\ Len(al) = 2
          /\ al[1].tab_id = "t1"
          /\ al[2].tab_id = response.call.tab_id
          /\ response.call.tab_id \in {"t2", "t3"}

----------------------------------------------------------------------------
\* C16: under SpecSeq, when the find_one or the write of an EnterLesson,
\* ExitLesson, UpdateFocus or GetCurrent fails, the request is answered at
\* that step with a failure that carries a message, and not with a success
\* or an ordinary view.
StoreFailureIsReported ==
    [][\A p \in Procs :
         ( /\ pc[p] \in {"find", "write"} /\ pc'[p] # pc[p]
           /\ faults' # faults ) =>
            /\ response' # None
            /\ response'.http.status_code # 200
            /\ "detail" \in DOMAIN response'.http.body
            /\ response'.http.body.detail # ""]_vars

\* C17: under SpecSeq, an UpdateFocus that fails because the user has no
\* record or the tab is not in the record is answered with a client error
\* (4xx), and one that fails because a store call failed with a server
\* error (5xx).
FailureKindsAreDistinguished ==
    [][\A p \in Procs :
         ( /\ pc[p] \in {"find", "write"} /\ pc'[p] = "idle"
           /\ call[p].op = "focus"
           /\ response' # None /\ response'.http.status_code # 200 ) =>
            IF faults' # faults
            THEN response'.http.status_code \in 500..599
            ELSE response'.http.status_code \in 400..499]_vars

----------------------------------------------------------------------------
\* SpecInput: the POST requests as they arrive, with their JSON bodies, and
\* GetCurrent, served one after the other over a store that does not fail.
InputMaxOps == 3

\* The body of a POST is a function from the names of the fields it holds
\* to strings.  The fields the pydantic models declare with Field(...):
SetCurrentLessonRequest == {"user_id", "lesson_id", "serie_id", "tab_id"}
ClearCurrentLessonRequest == {"user_id", "tab_id"}
UpdateFocusRequest == {"user_id", "tab_id"}

RequiredFields(op) ==
    CASE op = "enter" -> SetCurrentLessonRequest
      [] op = "exit" -> ClearCurrentLessonRequest
      [] op = "focus" -> UpdateFocusRequest

\* `str = Field(...)`: the field must be there; every string is accepted,
\* the empty one included.
Validates(body, op) == RequiredFields(op) \subseteq DOMAIN body

\* The answer of the framework to a body that does not validate.
ValidationError == [status_code |-> 422, body |-> [detail |-> "Field required"]]

InputUsers == {"u1", ""}

EnterBodies ==
    { [user_id |-> "u1", lesson_id |-> "l1", serie_id |-> "s1", tab_id |-> "t1",
       lesson_title |-> "Intro"],
      [user_id |-> "u1", lesson_id |-> "l2", serie_id |-> "s2", tab_id |-> "t2"],
      [user_id |-> "u1", lesson_id |-> "", serie_id |-> "", tab_id |-> ""],
      [user_id |-> "", lesson_id |-> "l1", serie_id |-> "s1", tab_id |-> "t1"],
      [user_id |-> "u1", lesson_id |-> "l1", serie_id |-> "s1"],
      [lesson_id |-> "l1", tab_id |-> "t1"] }

TabBodies ==
    { [user_id |-> "u1", tab_id |-> "t1"],
      [user_id |-> "u1", tab_id |-> ""],
      [user_id |-> "", tab_id |-> "t1"],
      [user_id |-> "u1"],
      [tab_id |-> "t1"] }

\* request.lesson_id, request.serie_id, request.lesson_title (None when the
\* body has no title).
LessonOf(body) ==
    [lesson_id |-> body.lesson_id, serie_id |-> body.serie_id,
     lesson_title |-> IF "lesson_title" \in DOMAIN body
                      THEN body.lesson_title ELSE NoTitle]

\* A body that does not validate is answered before the handler runs.
Rejected(p, op) ==
    /\ pc[p] = "idle"
    /\ ops' = ops + 1
    /\ response' = [call |-> [NoCall EXCEPT !.op = op], http |-> ValidationError]
    /\ UNCHANGED <<unique, coll, clock, pc, call, now, tracking, faults, history>>

\* POST /lesson/enter, /lesson/exit, /lesson/focus with a body.
Post(p, op, bodies) ==
    \E body \in bodies :
        IF Validates(body, op)
        THEN Receive(p, op, body.user_id, body.tab_id,
                     IF op = "enter" THEN LessonOf(body) ELSE NoLesson)
        ELSE Rejected(p, op)

NextInput ==
    \/ clock < MaxClock /\ Tick
    \/ \E p \in SeqProcs :
         \/ ops < InputMaxOps /\ Post(p, "enter", EnterBodies)
         \/ ops < InputMaxOps /\ Post(p, "exit", TabBodies)
         \/ ops < InputMaxOps /\ Post(p, "focus", TabBodies)
         \/ ops < InputMaxOps /\ Current(p, InputUsers)
         \/ Find(p, {TRUE})
         \/ clear_current_lesson_now(p)
         \/ Write(p, {TRUE})
         \/ Fetch(p, {TRUE})

SpecInput == InitFor(InputUsers) /\ [][NextInput]_vars

\* C18: under SpecInput, no EnterLesson, ExitLesson or UpdateFocus request
\* whose user_id, tab_id, lesson_id or serie_id is missing or empty reaches
\* the store (it is answered with a validation error instead), and no entry
\* of a stored record has an empty tab_id, lesson_id or serie_id.
NoEmptyIdentifier ==
    /\ \A p \in Procs :
          pc[p] # "idle" /\ call[p].op \in {"enter", "exit", "focus"} =>
             /\ call[p].user_id # "" /\ call[p].tab_id # ""
             /\ call[p].op = "enter" =>
                   call[p].lesson.lesson_id # "" /\ call[p].lesson.serie_id # ""
    /\ \A d \in Records(coll) :
          \A i \in 1..Len(d.active_lessons) :
             /\ d.active_lessons[i].tab_id # ""
             /\ d.active_lessons[i].lesson_id # ""
             /\ d.active_lessons[i].serie_id # ""

----------------------------------------------------------------------------
\* C19: under SpecSeq, an UpdateFocus answered with success leaves a record
\* with the same entries in the same order, each with the tab_id, lesson_id,
\* serie_id and lesson_title it had; the last_active of the entry of the
\* named tab is the time the operation read at its start and the one of
\* every other entry is unchanged; the focused entry is the refreshed entry
\* of the named tab, which is also the data of the answer; last_updated is
\* the operation's time.
FocusRefreshesOneTab ==
    [][\A p \in Procs :
         LET u == call[p].user_id
             before == Doc(coll, u)
             after == Doc(coll', u)
         IN
         ( WriteStep(p, "focus") /\ Succeeds ) =>
            /\ HasDoc(coll, u) /\ HasDoc(coll', u)
            /\ Only(coll', u) = <<after>>
            /\ Len(after.active_lessons) = Len(before.active_lessons)
            /\ \A i \in 1..Len(before.active_lessons) :
                  LET old == before.active_lessons[i]
                      new == after.active_lessons[i]
                  IN
                  /\ new.tab_id = old.tab_id
                  /\ new.lesson_id = old.lesson_id
                  /\ new.serie_id = old.serie_id
                  /\ new.lesson_title = old.lesson_title
                  /\ new.last_active = IF old.tab_id = call[p].tab_id
                                       THEN now[p] ELSE old.last_active
                  /\ old.tab_id = call[p].tab_id => after.current_lesson = new
            /\ after.current_lesson.tab_id = call[p].tab_id
            /\ after.last_updated = now[p]
            /\ response'.http.body.data = after.current_lesson]_vars

\* UpdateFocus has just moved the focus to the middle one of three tabs,
\* whose last_active is now above the one of the two others.
FocusRefreshesOneTabWitness ==
    /\ Answered("focus")
    /\ response.http.status_code = 200
    /\ LET d == Doc(coll, response.call.user_id) IN
          /\ Len(d.active_lessons) = 3
          /\ d.current_lesson = d.active_lessons[2]
          /\ d.active_lessons[2].tab_id = response.call.tab_id
          /\ d.active_lessons[2].last_active > d.active_lessons[1].last_active
          /\ d.active_lessons[2].last_active > d.active_lessons[3].last_active
          /\ d.active_lessons[3].last_active > d.active_lessons[1].last_active
          /\ d.last_updated = d.active_lessons[2].last_active

----------------------------------------------------------------------------
\* C20: under SpecSeq (non-decreasing clock, no interleaving), every write
\* that leaves a record sets its last_updated to the time of the operation
\* (the time read at the start of EnterLesson and UpdateFocus, the time
\* ExitLesson reads after it has read the record, when it builds its
\* update); the
\* last_updated of a record never decreases; and in every state it is at
\* least every last_active of the record.
LastUpdatedBoundsActive ==
    \A d \in Records(coll) :
        \A i \in 1..Len(d.active_lessons) :
            d.active_lessons[i].last_active <= d.last_updated

WriteStampsLastUpdated ==
    \A p \in Procs :
        LET u == call[p].user_id IN
        /\ ( /\ pc[p] = "write" /\ pc'[p] = "idle" /\ Succeeds
             /\ HasDoc(coll', u) ) =>
                /\ Doc(coll', u).last_updated = now[p]
                /\ HasDoc(coll, u) =>
                      Doc(coll', u).last_updated >= Doc(coll, u).last_updated
        /\ ( pc[p] = "clock" /\ pc'[p] = "write" ) =>
                call[p].op = "exit" /\ now'[p] = clock
        /\ ( pc[p] = "idle" /\ pc'[p] = "find"
             /\ call'[p].op \in {"enter", "focus"} ) => now'[p] = clock

LastUpdatedIsRefreshed ==
    /\ []LastUpdatedBoundsActive
    /\ [][WriteStampsLastUpdated]_vars
    /\ [][\A u \in Users :
            (HasDoc(coll, u) /\ HasDoc(coll', u)) =>
               Doc(coll', u).last_updated >= Doc(coll, u).last_updated]_vars

\* An ExitLesson has just written back a record of two tabs at a time that
\* is after the last_active of both.
LastUpdatedIsRefreshedWitness ==
    /\ Answered("exit")
    /\ response.http.status_code = 200
    /\ HasDoc(coll, response.call.user_id)
    /\ LET d == Doc(coll, response.call.user_id) IN
          /\ Len(d.active_lessons) = 2
          /\ d.last_updated = clock
          /\ \A i \in 1..2 : d.active_lessons[i].last_active < d.last_updated
          /\ d.active_lessons[1].last_active < d.active_lessons[2].last_active

----------------------------------------------------------------------------
\* The last_active of the tabs that a step keeps in the record of u does not
\* decrease.
LastActiveKept(u) ==
    (HasDoc(coll, u) /\ HasDoc(coll', u)) =>
        \A i \in 1..Len(Doc(coll, u).active_lessons) :
            \A j \in 1..Len(Doc(coll', u).active_lessons) :
                LET old == Doc(coll, u).active_lessons[i]
                    new == Doc(coll', u).active_lessons[j]
                IN
                old.tab_id = new.tab_id => old.last_active <= new.last_active

\* C21 as stated: under Spec (non-decreasing clock, every interleaving of
\* the requests of one user), no write lowers the stored last_active of a
\* tab that stays in the record.
LastActiveNeverDecreases ==
    [][\A u \in Users : LastActiveKept(u)]_vars

\* C21 as amended: the same for a user whose requests never overlapped in
\* time.
LastActiveNeverDecreasesUnraced ==
    [][\A u \in Users : ~raced'[u] => LastActiveKept(u)]_vars

\* An UpdateFocus of a user whose requests never overlapped has just raised
\* the last_active of the first of two tabs above the one of the other.
LastActiveNeverDecreasesWitness ==
    /\ Answered("focus")
    /\ response.http.status_code = 200
    /\ ~raced[response.call.user_id]
    /\ LET d == Doc(coll, response.call.user_id) IN
          /\ Len(d.active_lessons) = 2
          /\ d.active_lessons[1].tab_id = response.call.tab_id
          /\ d.active_lessons[1].last_active = 1
          /\ d.active_lessons[2].last_active = 0

----------------------------------------------------------------------------
\* The focused entry of every record has the greatest last_active of the
\* record.
FocusMostRecent(d) ==
    \A i \in 1..Len(d.active_lessons) :
        d.active_lessons[i].last_active <= d.current_lesson.last_active

\* C22 as stated: under Spec (every interleaving of the requests of one
\* user), in every state the last_active of the focused entry is at least
\* the last_active of every entry of active_lessons.
FocusIsMostRecent ==
    \A d \in Records(coll) : FocusMostRecent(d)

\* C22 as amended: the same for the record of a user whose requests never
\* overlapped in time.
FocusIsMostRecentUnraced ==
    \A d \in Records(coll) : ~raced[d.user_id] => FocusMostRecent(d)

\* An ExitLesson of a user whose requests never overlapped has just left
\* the focus on the only remaining tab, which was entered at time 1.
FocusIsMostRecentWitness ==
    /\ Answered("exit")
    /\ response.http.status_code = 200
    /\ ~raced[response.call.user_id]
    /\ HasDoc(coll, response.call.user_id)
    /\ LET d == Doc(coll, response.call.user_id) IN
          /\ Len(d.active_lessons) = 1
          /\ d.current_lesson = d.active_lessons[1]
          /\ d.current_lesson.last_active = 1

----------------------------------------------------------------------------
\* C23: under Spec (every interleaving of the requests of one user), in the
\* state right after the write of an EnterLesson that is answered with
\* success, the record of the user exists, holds an entry of the entered
\* tab and has that entry as its focused entry.
EnterSuccessIsStored ==
    [][\A p \in Procs :
         LET u == call[p].user_id IN
         ( WriteStep(p, "enter") /\ Succeeds ) =>
            /\ HasDoc(coll', u)
            /\ call[p].tab_id \in TabsOf(Doc(coll', u).active_lessons)
            /\ Doc(coll', u).current_lesson.tab_id = call[p].tab_id
            /\ Doc(coll', u).current_lesson.lesson_id = call[p].lesson.lesson_id]_vars

----------------------------------------------------------------------------
\* SpecIndex: EnterLesson requests of one user, served concurrently by a
\* service whose create_index at start-up worked or raised.  Without the
\* index find_one and update_one act on the first of the user's documents.
IndexEnters == {<<"t1", Lesson1>>, <<"t2", Lesson2>>}

NextIndex ==
    \/ clock < MaxClock /\ Tick
    \/ \E p \in Procs :
         \/ ops < RaceMaxOps /\ Enter(p, Users, IndexEnters)
         \/ Find(p, {TRUE})
         \/ Write(p, {TRUE})

SpecIndex == Started(Users, BOOLEAN) /\ [][NextIndex]_vars

OneRecordPerUser ==
    \A u \in Users : Len(Only(coll, u)) <= 1

\* The insert of an EnterLesson that read no record: it succeeds and leaves
\* a record of exactly its tab when there is still no record, and fails and
\* leaves the collection as it is when another call has inserted one.
InsertOnce ==
    \A p \in Procs :
        LET u == call[p].user_id IN
        ( WriteStep(p, "enter") /\ tracking[p] = None ) =>
           IF HasDoc(coll, u)
           THEN /\ response'.http.status_code # 200
                /\ "detail" \in DOMAIN response'.http.body
                /\ coll' = coll
           ELSE /\ Succeeds
                /\ Only(coll', u) # <<>>
                /\ \A d \in Records(Only(coll', u)) :
                      TabsOf(d.active_lessons) = {call[p].tab_id}

\* C24: under SpecIndex (every interleaving of the EnterLesson requests of
\* one user), the collection holds at most one record per user_id in every
\* state, and of two EnterLesson calls that both read no record one insert
\* succeeds and the other call is answered with a failure, the record being
\* the one of the call whose insert succeeded.
UniqueRecordPerUser ==
    /\ []OneRecordPerUser
    /\ [][InsertOnce]_vars

====
